---------------------------- MODULE Spec2Model ----------------------------
(***************************************************************************)
(* HQE Engineer protocol validators: protocol/validate.py (schema          *)
(* self-check, schema validation, semantic linting, exit status) and       *)
(* protocol/verify.py (schema validation, summary, exit status).           *)
(*                                                                         *)
(* Python values are tagged records: None, str, int, list and dict.  A     *)
(* dict keeps its insertion order in o and its items in v.  An operation   *)
(* that raises in Python (a .get on None, len(None), None < 20, ...)       *)
(* yields a result whose fault field is TRUE.  The value universe of the   *)
(* documents is: every node the code reads is a missing key, None, or a    *)
(* value of the type the code expects (plus int and None for scalars).     *)
(***************************************************************************)
EXTENDS Integers, Sequences, FiniteSets, TLC

VARIABLES tool, argv, yaml_file, schema_file, HAS_JSONSCHEMA, pc, data, loaded_schema,
          errors, warnings, sem_errors, sem_warnings, ran, validated, found,
          reported, is_valid, raised, exit_code

vars == <<tool, argv, yaml_file, schema_file, HAS_JSONSCHEMA, pc, data, loaded_schema,
          errors, warnings, sem_errors, sem_warnings, ran, validated, found,
          reported, is_valid, raised, exit_code>>

(***************************************************************************)
(* Bounds of the model.                                                    *)
(***************************************************************************)
MaxConstraints == 3
MaxEntries == 11

(***************************************************************************)
(* Python values.                                                          *)
(***************************************************************************)
None == [t |-> "none"]
Str(s) == [t |-> "str", v |-> s]
PyInt(n) == [t |-> "int", v |-> n]
List(s) == [t |-> "seq", v |-> s]
Dict(pairs) ==
    [t |-> "map",
     o |-> [i \in 1..Len(pairs) |-> pairs[i][1]],
     v |-> [k \in {pairs[i][1] : i \in 1..Len(pairs)} |->
              pairs[CHOOSE i \in 1..Len(pairs) : pairs[i][1] = k][2]]]
EmptyDict == Dict(<<>>)
EmptyList == List(<<>>)

\* A key left out of a dict under construction.
Absent == [t |-> "absent"]
Opt(key, x) == IF x = Absent THEN <<>> ELSE << <<key, x>> >>

\* x.get(key, default): AttributeError unless x is a dict.
GetFaults(x) == x.t # "map"
Get(x, key, default) == IF key \in DOMAIN x.v THEN x.v[key] ELSE default

\* key in x: TypeError on None and int; keys of a dict, items of a list.
InFaults(x) == x.t \in {"none", "int"}
PyIn(key, x) ==
    CASE x.t = "map" -> key \in DOMAIN x.v
      [] x.t = "seq" -> \E i \in 1..Len(x.v) : x.v[i] = Str(key)

\* len(x): TypeError on None and int.
LenFaults(x) == x.t \in {"none", "int"}
PyLen(x) ==
    CASE x.t = "map" -> Len(x.o)
      [] x.t = "seq" -> Len(x.v)
      [] x.t = "str" -> Len(x.v)

\* x < n or x > n: TypeError unless x is a number.
CmpFaults(x) == x.t # "int"

\* str(x) as an f-string renders it.
Fmt(x) ==
    CASE x.t = "str" -> x.v
      [] x.t = "int" -> ToString(x.v)
      [] x.t = "none" -> "None"

\* '/'.join(str(p) for p in path)
RECURSIVE Join(_, _)
Join(sep, path) ==
    IF path = <<>> THEN ""
    ELSE IF Len(path) = 1 THEN path[1]
    ELSE path[1] \o sep \o Join(sep, Tail(path))

Ok(errs, warns) == [fault |-> FALSE, errors |-> errs, warnings |-> warns]
Fault == [fault |-> TRUE, errors |-> <<>>, warnings |-> <<>>]

(***************************************************************************)
(* validate_yaml_semantics, one operator per check.  Each returns the      *)
(* findings it appends, or Fault when a statement of the check raises.     *)
(***************************************************************************)
required_prefixes == <<"BOOT", "SEC", "BUG", "PERF", "DOC">>
required_phases == <<"phase_zero", "phase_one", "phase_two", "phase_three">>
CriticalMin == 20
CriticalMax == 50
AntiPatternFloor == 5
MandatoryFloor == 5

\* for name in required: if name not in mapping: errors.append(msg + name)
RECURSIVE MissingLoop(_, _, _)
MissingLoop(required, mapping, msg) ==
    IF required = <<>> THEN <<>>
    ELSE (IF ~PyIn(Head(required), mapping)
          THEN <<msg \o Head(required)>> ELSE <<>>)
         \o MissingLoop(Tail(required), mapping, msg)

CheckVersions(d) ==
    IF GetFaults(d) THEN Fault
    ELSE LET schema_version == Get(d, "schema_version", Str(""))
             protocol_version == Get(d, "protocol_version", Str(""))
         IN IF schema_version # protocol_version
            THEN Ok(<<>>, <<"schema_version (" \o Fmt(schema_version)
                            \o ") != protocol_version ("
                            \o Fmt(protocol_version) \o ")">>)
            ELSE Ok(<<>>, <<>>)

CheckPrefixes(d) ==
    IF GetFaults(d) THEN Fault
    ELSE LET definitions == Get(d, "definitions", EmptyDict)
         IN IF GetFaults(definitions) THEN Fault
            ELSE LET id_prefixes == Get(definitions, "id_prefixes", EmptyDict)
                 IN IF InFaults(id_prefixes) THEN Fault
                    ELSE Ok(MissingLoop(required_prefixes, id_prefixes,
                                        "Missing required ID prefix: "), <<>>)

\* The loop with a counter that advances only past a matching id.
RECURSIVE ConstraintLoop_cascading(_, _, _)
ConstraintLoop_cascading(items, i, expected_id) ==
    IF i > Len(items) THEN Ok(<<>>, <<>>)
    ELSE IF GetFaults(items[i]) THEN Fault
    ELSE LET cid == Get(items[i], "id", Str(""))
             expected_cid == "C" \o ToString(expected_id)
             rest == ConstraintLoop_cascading(items, i + 1,
                        IF cid = Str(expected_cid)
                        THEN expected_id + 1 ELSE expected_id)
         IN IF rest.fault THEN Fault
            ELSE IF cid # Str(expected_cid)
            THEN Ok(<<"Constraint ID out of order: expected " \o expected_cid
                      \o ", got " \o Fmt(cid)>> \o rest.errors, <<>>)
            ELSE rest

\* The loop over constraints from element i on, with the counter expected_id.
RECURSIVE ConstraintLoop(_, _, _)
ConstraintLoop(items, i, expected_id) ==
    IF i > Len(items) THEN Ok(<<>>, <<>>)
    ELSE IF GetFaults(items[i]) THEN Fault
    ELSE LET cid == Get(items[i], "id", Str(""))
             expected_cid == "C" \o ToString(expected_id)
             rest == ConstraintLoop(items, i + 1, expected_id + 1)
         IN IF rest.fault THEN Fault
            ELSE IF cid # Str(expected_cid)
            THEN Ok(<<"Constraint ID out of order: expected " \o expected_cid
                      \o ", got " \o Fmt(cid)>> \o rest.errors, <<>>)
            ELSE rest

CheckConstraints(d) ==
    IF GetFaults(d) THEN Fault
    ELSE LET constraints == Get(d, "constraints", EmptyList)
         IN IF constraints.t # "seq" THEN Fault
            ELSE ConstraintLoop(constraints.v, 1, 1)

CheckPhases(d) ==
    IF GetFaults(d) THEN Fault
    ELSE LET phases == Get(d, "phases", EmptyDict)
         IN IF InFaults(phases) THEN Fault
            ELSE Ok(MissingLoop(required_phases, phases,
                                "Missing required phase: "), <<>>)

CheckSizeLimits(d) ==
    IF GetFaults(d) THEN Fault
    ELSE LET output_controls == Get(d, "output_controls", EmptyDict)
         IN IF GetFaults(output_controls) THEN Fault
            ELSE LET size_limits == Get(output_controls, "size_limits", EmptyDict)
                 IN IF GetFaults(size_limits) THEN Fault
                    ELSE LET critical_max ==
                               Get(size_limits, "critical_and_high_max_total", PyInt(0))
                         IN IF CmpFaults(critical_max) THEN Fault
                            ELSE IF critical_max.v < CriticalMin
                                    \/ critical_max.v > CriticalMax
                            THEN Ok(<<>>, <<"critical_and_high_max_total ("
                                            \o Fmt(critical_max)
                                            \o ") seems unusual">>)
                            ELSE Ok(<<>>, <<>>)

CheckAntiPatterns(d) ==
    IF GetFaults(d) THEN Fault
    ELSE LET anti_patterns == Get(d, "anti_patterns", EmptyDict)
         IN IF GetFaults(anti_patterns) THEN Fault
            ELSE LET prohibited == Get(anti_patterns, "prohibited", EmptyList)
                 IN IF LenFaults(prohibited) THEN Fault
                    ELSE IF PyLen(prohibited) < AntiPatternFloor
                    THEN Ok(<<>>, <<"Only " \o ToString(PyLen(prohibited))
                                    \o " anti-patterns defined (recommend >10)">>)
                    ELSE Ok(<<>>, <<>>)

CheckMandatory(d) ==
    IF GetFaults(d) THEN Fault
    ELSE LET pre_delivery == Get(d, "pre_delivery_checklist", EmptyDict)
         IN IF GetFaults(pre_delivery) THEN Fault
            ELSE LET mandatory == Get(pre_delivery, "mandatory_checks", EmptyList)
                 IN IF LenFaults(mandatory) THEN Fault
                    ELSE IF PyLen(mandatory) < MandatoryFloor
                    THEN Ok(<<>>, <<"Only " \o ToString(PyLen(mandatory))
                                    \o " mandatory checks (recommend >10)">>)
                    ELSE Ok(<<>>, <<>>)

NumChecks == 7
Check(k, d) ==
    CASE k = 1 -> CheckVersions(d)
      [] k = 2 -> CheckPrefixes(d)
      [] k = 3 -> CheckConstraints(d)
      [] k = 4 -> CheckPhases(d)
      [] k = 5 -> CheckSizeLimits(d)
      [] k = 6 -> CheckAntiPatterns(d)
      [] k = 7 -> CheckMandatory(d)

\* validate_yaml_semantics(data): the checks in source order from check k on;
\* (errors, warnings), or Fault when one of them raises.
RECURSIVE ChecksFrom(_, _)
ChecksFrom(k, d) ==
    IF k > NumChecks THEN Ok(<<>>, <<>>)
    ELSE LET r == Check(k, d)
             rest == ChecksFrom(k + 1, d)
         IN IF r.fault \/ rest.fault THEN Fault
            ELSE Ok(r.errors \o rest.errors, r.warnings \o rest.warnings)

validate_yaml_semantics(d) == ChecksFrom(1, d)


(***************************************************************************)
(* validate_schema_structure: the diagnostics of the schema self-check,    *)
(* or Fault when a statement raises (a subscript or .get on a non-dict,    *)
(* [0] on an empty key list).                                              *)
(***************************************************************************)
required_fields == <<"$schema", "type", "properties">>
ExpectedPattern == "^[A-Z]{3,6}$"

PatternCheck(id_prefixes) ==
    IF InFaults(id_prefixes) THEN Fault
    ELSE IF ~PyIn("patternProperties", id_prefixes) THEN Ok(<<>>, <<>>)
    ELSE IF GetFaults(id_prefixes) THEN Fault
    ELSE LET pp == id_prefixes.v["patternProperties"]
         IN IF pp.t # "map" \/ Len(pp.o) = 0 THEN Fault
            ELSE LET pattern == pp.o[1]
                 IN IF pattern # ExpectedPattern
                    THEN Ok(<<"id_prefixes pattern may be incorrect: "
                              \o pattern>>, <<>>)
                    ELSE Ok(<<>>, <<>>)

validate_schema_structure(schema) ==
    IF InFaults(schema) THEN Fault
    ELSE LET missing == MissingLoop(required_fields, schema,
                                    "Schema missing required field: ")
         IN IF ~PyIn("properties", schema) THEN Ok(missing, <<>>)
            ELSE IF GetFaults(schema) \/ GetFaults(schema.v["properties"])
            THEN Fault
            ELSE LET defs == Get(schema.v["properties"], "definitions", EmptyDict)
                 IN IF InFaults(defs) THEN Fault
                    ELSE IF ~PyIn("properties", defs) THEN Ok(missing, <<>>)
                    ELSE IF GetFaults(defs) \/ GetFaults(defs.v["properties"])
                    THEN Fault
                    ELSE LET id_prefixes ==
                               Get(defs.v["properties"], "id_prefixes", EmptyDict)
                             r == PatternCheck(id_prefixes)
                         IN IF r.fault THEN Fault
                            ELSE Ok(missing \o r.errors, <<>>)

(***************************************************************************)
(* The documents and schemas a run may load.                               *)
(***************************************************************************)
SeqsUpTo(S, n) == UNION {[1..m -> S] : m \in 0..n}

\* A dict holding the keys of order that are in S, each with a description.
KeyedDict(order, S) ==
    LET keys == SelectSeq(order, LAMBDA k : k \in S)
    IN Dict([i \in 1..Len(keys) |-> <<keys[i], Str("desc")>>])
Entries(n) == List([i \in 1..n |-> Str("item")])
Scoped(key, S) == {Absent, None} \cup {Dict(Opt(key, x)) : x \in S}

PrefixKeys == <<"BOOT", "SEC", "BUG", "PERF", "DOC", "TODO">>
PhaseKeys == <<"phase_zero", "phase_one", "phase_two", "phase_three", "phase_four">>
Range(s) == {s[i] : i \in 1..Len(s)}

VersionVals == {Absent, Str("1.0"), Str("1.1")}
IdPrefixesVals ==
    {Absent, None} \cup {KeyedDict(PrefixKeys, S) : S \in SUBSET Range(PrefixKeys)}
DefinitionsVals == Scoped("id_prefixes", IdPrefixesVals)
ConstraintIds == {"C" \o ToString(i) : i \in 1..MaxConstraints} \cup {"X"}
ConstraintElems ==
    {None, EmptyDict} \cup {Dict(<< <<"id", Str(s)>> >>) : s \in ConstraintIds}
ConstraintsVals ==
    {Absent, None} \cup {List(s) : s \in SeqsUpTo(ConstraintElems, MaxConstraints)}
PhasesVals ==
    {Absent, None} \cup {KeyedDict(PhaseKeys, S) : S \in SUBSET Range(PhaseKeys)}
CriticalVals ==
    {Absent, None} \cup {PyInt(n) : n \in {-1, 0, 19, 20, 21, 30, 49, 50, 51, 60}}
OutputControlsVals ==
    Scoped("size_limits", Scoped("critical_and_high_max_total", CriticalVals))
EntriesVals == {Absent, None} \cup {Entries(n) : n \in 0..MaxEntries}
AntiPatternsVals == Scoped("prohibited", EntriesVals)
PreDeliveryVals == Scoped("mandatory_checks", EntriesVals)
RoleVals == {Absent, None, Dict(<< <<"title", Str("HQE Engineer")>> >>)}
PrinciplesVals == {Absent, None, Entries(2)}

MkDoc(f) ==
    Dict(Opt("schema_version", f.sv) \o Opt("protocol_version", f.pv)
         \o Opt("role", f.role) \o Opt("definitions", f.defs)
         \o Opt("constraints", f.cons) \o Opt("phases", f.phases)
         \o Opt("output_controls", f.oc) \o Opt("anti_patterns", f.ap)
         \o Opt("pre_delivery_checklist", f.pd)
         \o Opt("operating_principles", f.op))

AllPrefixes == KeyedDict(PrefixKeys, Range(required_prefixes))
AllPhases == KeyedDict(PhaseKeys, Range(required_phases))
Constraint(s) == Dict(<< <<"id", Str(s)>> >>)
Limits(n) ==
    Dict(<< <<"size_limits",
              Dict(<< <<"critical_and_high_max_total", PyInt(n)>> >>)>> >>)

\* A document every check passes without a finding.
Clean ==
    [sv |-> Str("1.0"), pv |-> Str("1.0"), role |-> Absent,
     defs |-> Dict(<< <<"id_prefixes", AllPrefixes>> >>),
     cons |-> List(<<Constraint("C1"), Constraint("C2")>>),
     phases |-> AllPhases, oc |-> Limits(30),
     ap |-> Dict(<< <<"prohibited", Entries(6)>> >>),
     pd |-> Dict(<< <<"mandatory_checks", Entries(6)>> >>),
     op |-> Absent]

\* One section varied over all its values, the rest clean.
Slices ==
    {[Clean EXCEPT !.sv = a, !.pv = b] : a \in VersionVals, b \in VersionVals}
    \cup {[Clean EXCEPT !.defs = x] : x \in DefinitionsVals}
    \cup {[Clean EXCEPT !.cons = x] : x \in ConstraintsVals}
    \cup {[Clean EXCEPT !.phases = x] : x \in PhasesVals}
    \cup {[Clean EXCEPT !.oc = x] : x \in OutputControlsVals}
    \cup {[Clean EXCEPT !.ap = x] : x \in AntiPatternsVals}
    \cup {[Clean EXCEPT !.pd = x] : x \in PreDeliveryVals}
    \cup {[Clean EXCEPT !.role = x, !.op = y] : x \in RoleVals, y \in PrinciplesVals}

\* Every section varied at once over a few values.
Mixed ==
    [sv : {Str("1.0")}, pv : {Str("1.0"), Str("1.1")}, role : {Absent},
     defs : {Clean.defs, Absent, Dict(<< <<"id_prefixes", None>> >>)},
     cons : {Clean.cons, List(<<Constraint("C1"), Constraint("C3")>>)},
     phases : {AllPhases, KeyedDict(PhaseKeys, {"phase_one"}), None},
     oc : {Limits(30), Limits(60)},
     ap : {Clean.ap, Dict(<< <<"prohibited", Entries(3)>> >>)},
     pd : {Clean.pd, Absent, None},
     op : {Absent}]

Docs == {None} \cup {MkDoc(f) : f \in Slices \cup Mixed}

Pattern(seq) == Dict([i \in 1..Len(seq) |-> <<seq[i], EmptyDict>>])
PatternVals ==
    {Absent, None, Pattern(<<>>), Pattern(<<ExpectedPattern>>),
     Pattern(<<"^[a-z]+$">>), Pattern(<<"^[a-z]+$", ExpectedPattern>>)}
SchemaProperties ==
    {Absent, None, EmptyDict,
     Dict(<< <<"definitions", None>> >>),
     Dict(<< <<"definitions", EmptyDict>> >>),
     Dict(<< <<"definitions", Dict(<< <<"properties", EmptyDict>> >>)>> >>),
     Dict(<< <<"definitions",
               Dict(<< <<"properties", Dict(<< <<"id_prefixes", None>> >>)>> >>)>> >>)}
    \cup {Dict(<< <<"definitions",
                    Dict(<< <<"properties",
                              Dict(<< <<"id_prefixes",
                                        Dict(Opt("patternProperties", p))>> >>)>> >>)>> >>)
          : p \in PatternVals}
SchemaTrees ==
    {None, List(<<>>)}
    \cup {Dict(Opt("$schema", a) \o Opt("type", b) \o Opt("properties", c))
          : a \in {Absent, Str("http://json-schema.org/draft-07/schema#")},
            b \in {Absent, Str("object")},
            c \in SchemaProperties}

\* What the schema validator can find in a document: each has a message and
\* the path of the offending node.
Violations ==
    {[message |-> "'role' is a required property", path |-> <<>>,
      validator |-> "required"],
     [message |-> "'C9' does not match '^C[0-9]+$'",
      path |-> <<"constraints", "0", "id">>, validator |-> "pattern"]}


(***************************************************************************)
(* State of a run.  tool is the entry point (validate.py or verify.py),    *)
(* argv its argument, yaml_file and schema_file what is on disk.  found    *)
(* is what the schema validator can find in the loaded document, reported  *)
(* what it raised, validated whether it was evaluated, ran the semantic    *)
(* checks evaluated so far, raised the exception that ended the run,       *)
(* loaded_schema the schema main loads in --schema mode.                   *)
(***************************************************************************)
FileStates == {"missing", "unreadable", "malformed", "ok"}
PyBool(b) == [t |-> "bool", v |-> b]
Unbound == Absent

Init ==
    /\ tool \in {"validate", "verify"}
    /\ argv \in {"none", "--schema", "path"}
    /\ tool = "verify" => argv = "path"
    /\ yaml_file \in FileStates
    /\ schema_file \in FileStates
    /\ HAS_JSONSCHEMA \in BOOLEAN
    /\ pc = "main"
    /\ data = Unbound
    /\ loaded_schema = Unbound
    /\ errors = <<>>
    /\ warnings = <<>>
    /\ sem_errors = <<>>
    /\ sem_warnings = <<>>
    /\ ran = {}
    /\ validated = FALSE
    /\ found = {}
    /\ reported = <<>>
    /\ is_valid = Unbound
    /\ raised = ""
    /\ exit_code = -1

\* sys.exit(code), or an exception nobody catches (exit status 1).
Exit(code, exc) ==
    /\ pc' = "exit"
    /\ exit_code' = code
    /\ raised' = exc

\* validate.py main: usage, the existence test, the call of lint_yaml_file.
V_Main ==
    /\ pc = "main" /\ tool = "validate" /\ argv # "--schema"
    /\ IF argv = "none" \/ yaml_file = "missing"
       THEN Exit(1, "")
       ELSE pc' = "load_yaml" /\ UNCHANGED <<exit_code, raised>>
    /\ UNCHANGED <<loaded_schema, tool, argv, yaml_file, schema_file, HAS_JSONSCHEMA, data,
                   errors, warnings, sem_errors, sem_warnings, ran, validated,
                   found, reported, is_valid>>

\* validate.py main --schema: the schema self-check alone.
V_SchemaMode ==
    /\ pc = "main" /\ tool = "validate" /\ argv = "--schema"
    /\ IF schema_file # "ok"
       THEN Exit(1, "") /\ UNCHANGED <<loaded_schema, errors>>
       ELSE \E tree \in SchemaTrees :
              LET r == validate_schema_structure(tree)
              IN /\ loaded_schema' = tree
                 /\ IF r.fault THEN Exit(1, "") /\ errors' = errors
                    ELSE /\ errors' = r.errors
                         /\ Exit(IF r.errors # <<>> THEN 1 ELSE 0, "")
    /\ UNCHANGED <<tool, argv, yaml_file, schema_file, HAS_JSONSCHEMA, data,
                   warnings, sem_errors, sem_warnings, ran, validated,
                   found, reported, is_valid>>

\* load_yaml with a parse error that is swallowed instead of returned.
LintLoadYaml_swallowing ==
    /\ pc = "load_yaml"
    /\ CASE yaml_file = "malformed" ->
              /\ data' = None
              /\ pc' = "schema"
              /\ UNCHANGED <<errors, is_valid, exit_code, raised>>
         [] yaml_file \in {"unreadable", "missing"} ->
              /\ Exit(1, "OSError")
              /\ UNCHANGED <<data, errors, is_valid>>
         [] yaml_file = "ok" ->
              /\ data' \in Docs
              /\ pc' = "schema"
              /\ UNCHANGED <<errors, is_valid, exit_code, raised>>
    /\ UNCHANGED <<loaded_schema, tool, argv, yaml_file, schema_file, HAS_JSONSCHEMA,
                   warnings, sem_errors, sem_warnings, ran, validated,
                   found, reported>>

\* lint_yaml_file: load_yaml and its except clause.
LintLoadYaml ==
    /\ pc = "load_yaml"
    /\ CASE yaml_file = "malformed" ->
              /\ is_valid' = PyBool(FALSE)
              /\ errors' = <<"YAML parse error: mapping values are not allowed here">>
              /\ pc' = "report"
              /\ UNCHANGED <<data, exit_code, raised>>
         [] yaml_file \in {"unreadable", "missing"} ->
              /\ Exit(1, "OSError")
              /\ UNCHANGED <<data, errors, is_valid>>
         [] yaml_file = "ok" ->
              /\ data' \in Docs
              /\ pc' = "schema"
              /\ UNCHANGED <<errors, is_valid, exit_code, raised>>
    /\ UNCHANGED <<loaded_schema, tool, argv, yaml_file, schema_file, HAS_JSONSCHEMA,
                   warnings, sem_errors, sem_warnings, ran, validated,
                   found, reported>>

\* validate(instance=data, schema=schema) of the jsonschema library: raises
\* SchemaError on a schema it rejects, else ValidationError for one of the
\* violations it can find, else returns.
ValidateOutcomes(canFind, schemaRejected) ==
    IF schemaRejected THEN {[exc |-> "SchemaError", v |-> <<>>]}
    ELSE IF canFind = {} THEN {[exc |-> "", v |-> <<>>]}
    ELSE {[exc |-> "ValidationError", v |-> <<x>>] : x \in canFind}

validate_with_schema(has_jsonschema, outcome) ==
    IF ~has_jsonschema
    THEN <<"jsonschema not installed, skipping schema validation">>
    ELSE IF outcome.exc = "ValidationError"
    THEN <<"Schema validation error: " \o outcome.v[1].message,
           "  Path: " \o Join("/", outcome.v[1].path)>>
    ELSE <<>>

SchemaIssues(diags) == [i \in 1..Len(diags) |-> "Schema issue: " \o diags[i]]
CouldNotValidate == "Could not validate against schema: error"

\* lint_yaml_file: the schema block (self-check, then schema validation).
LintSchema ==
    /\ pc = "schema"
    /\ pc' = "semantics"
    /\ CASE schema_file = "missing" ->
              UNCHANGED <<errors, warnings, validated, found, reported>>
         [] schema_file \in {"unreadable", "malformed"} ->
              /\ warnings' = warnings \o <<CouldNotValidate>>
              /\ UNCHANGED <<errors, validated, found, reported>>
         [] schema_file = "ok" ->
              \E schema \in SchemaTrees, canFind \in SUBSET Violations,
                 schemaRejected \in BOOLEAN :
                LET sc == validate_schema_structure(schema)
                IN IF sc.fault
                   THEN /\ warnings' = warnings \o <<CouldNotValidate>>
                        /\ UNCHANGED <<errors, validated, found, reported>>
                   ELSE IF ~HAS_JSONSCHEMA
                   THEN /\ warnings' = warnings \o SchemaIssues(sc.errors)
                        /\ errors' = errors \o validate_with_schema(FALSE, <<>>)
                        /\ UNCHANGED <<validated, found, reported>>
                   ELSE /\ schemaRejected => canFind = {}
                        /\ \E outcome \in ValidateOutcomes(canFind, schemaRejected) :
                             /\ validated' = TRUE
                             /\ found' = canFind
                             /\ reported' = outcome.v
                             /\ errors' = errors \o validate_with_schema(TRUE, outcome)
                             /\ warnings' = warnings \o SchemaIssues(sc.errors)
                                  \o (IF outcome.exc = "SchemaError"
                                      THEN <<CouldNotValidate>> ELSE <<>>)
    /\ UNCHANGED <<loaded_schema, tool, argv, yaml_file, schema_file, HAS_JSONSCHEMA, data,
                   sem_errors, sem_warnings, ran, is_valid, raised, exit_code>>

\* A check that looks at the findings so far and reports nothing once an
\* error has been found.
RunCheck_suppressing(k) ==
    LET r == Check(k, data)
    IN IF r.fault
       THEN /\ Exit(1, "SemanticsFault")
            /\ UNCHANGED <<sem_errors, sem_warnings, ran>>
       ELSE /\ sem_errors' = IF sem_errors = <<>> THEN r.errors ELSE sem_errors
            /\ sem_warnings' = sem_warnings \o r.warnings
            /\ ran' = ran \cup {k}
            /\ UNCHANGED <<pc, exit_code, raised>>

\* validate_yaml_semantics: the next check in source order.  An exception
\* leaves lint_yaml_file and main uncaught.
RunCheck(k) ==
    LET r == Check(k, data)
    IN IF r.fault
       THEN /\ Exit(1, "SemanticsFault")
            /\ UNCHANGED <<sem_errors, sem_warnings, ran>>
       ELSE /\ sem_errors' = sem_errors \o r.errors
            /\ sem_warnings' = sem_warnings \o r.warnings
            /\ ran' = ran \cup {k}
            /\ UNCHANGED <<pc, exit_code, raised>>

SemCheck(k) ==
    /\ pc = "semantics"
    /\ ran = 1..(k - 1)
    /\ RunCheck(k)
    /\ UNCHANGED <<loaded_schema, tool, argv, yaml_file, schema_file, HAS_JSONSCHEMA, data,
                   errors, warnings, validated, found, reported, is_valid>>

\* lint_yaml_file: the findings of validate_yaml_semantics are added and the
\* verdict is returned.
LintReturn ==
    /\ pc = "semantics"
    /\ ran = 1..NumChecks
    /\ errors' = errors \o sem_errors
    /\ warnings' = warnings \o sem_warnings
    /\ is_valid' = PyBool(Len(errors') = 0)
    /\ pc' = "report"
    /\ UNCHANGED <<loaded_schema, tool, argv, yaml_file, schema_file, HAS_JSONSCHEMA, data,
                   sem_errors, sem_warnings, ran, validated, found, reported,
                   raised, exit_code>>

\* validate.py main: the report and the exit status.
V_Report ==
    /\ pc = "report" /\ tool = "validate"
    /\ Exit(IF errors # <<>> THEN 1 ELSE 0, "")
    /\ UNCHANGED <<loaded_schema, tool, argv, yaml_file, schema_file, HAS_JSONSCHEMA, data,
                   errors, warnings, sem_errors, sem_warnings, ran, validated,
                   found, reported, is_valid>>


\* verify.py: the import block and main up to the existence tests.
R_Main ==
    /\ pc = "main" /\ tool = "verify"
    /\ IF ~HAS_JSONSCHEMA \/ yaml_file = "missing" \/ schema_file = "missing"
       THEN Exit(2, "")
       ELSE pc' = "r_load" /\ UNCHANGED <<exit_code, raised>>
    /\ UNCHANGED <<loaded_schema, tool, argv, yaml_file, schema_file, HAS_JSONSCHEMA, data,
                   errors, warnings, sem_errors, sem_warnings, ran, validated,
                   found, reported, is_valid>>

\* verify.py main: load_yaml, load_json and the except clauses.
R_Load ==
    /\ pc = "r_load"
    /\ IF yaml_file # "ok" \/ schema_file # "ok"
       THEN Exit(2, "") /\ data' = data
       ELSE /\ data' \in Docs
            /\ pc' = "r_validate"
            /\ UNCHANGED <<exit_code, raised>>
    /\ UNCHANGED <<loaded_schema, tool, argv, yaml_file, schema_file, HAS_JSONSCHEMA,
                   errors, warnings, sem_errors, sem_warnings, ran, validated,
                   found, reported, is_valid>>

\* verify.py validate_yaml: (is_valid, errors) of one validate call.
validate_yaml(outcome) ==
    IF outcome.exc = "ValidationError"
    THEN [is_valid |-> FALSE,
          errors |-> <<[message |-> outcome.v[1].message,
                        path |-> IF outcome.v[1].path # <<>>
                                 THEN outcome.v[1].path ELSE <<"root">>,
                        validator |-> outcome.v[1].validator]>>]
    ELSE [is_valid |-> TRUE, errors |-> <<>>]

\* verify.py main: the call of validate_yaml.
R_Validate ==
    /\ pc = "r_validate"
    /\ \E canFind \in SUBSET Violations, schemaRejected \in BOOLEAN :
         /\ schemaRejected => canFind = {}
         /\ \E outcome \in ValidateOutcomes(canFind, schemaRejected) :
              /\ validated' = TRUE
              /\ found' = canFind
              /\ reported' = outcome.v
              /\ IF outcome.exc = "SchemaError"
                 THEN /\ Exit(2, "")
                      /\ UNCHANGED <<errors, is_valid>>
                 ELSE /\ errors' = validate_yaml(outcome).errors
                      /\ is_valid' = PyBool(validate_yaml(outcome).is_valid)
                      /\ pc' = "r_summary"
                      /\ UNCHANGED <<exit_code, raised>>
    /\ UNCHANGED <<loaded_schema, tool, argv, yaml_file, schema_file, HAS_JSONSCHEMA, data,
                   warnings, sem_errors, sem_warnings, ran>>

\* verify.py print_summary raises when a node it reads has no .get, no len
\* or no .keys.
SummaryFaults(yaml_data) ==
    \/ GetFaults(yaml_data)
    \/ GetFaults(Get(yaml_data, "role", EmptyDict))
    \/ Get(yaml_data, "phases", EmptyDict).t # "map"
    \/ LenFaults(Get(yaml_data, "hard_constraints", EmptyList))
    \/ LenFaults(Get(yaml_data, "operating_principles", EmptyList))
    \/ LenFaults(Get(yaml_data, "anti_patterns", EmptyList))

\* verify.py main: the summary and the exit status.
R_Summary ==
    /\ pc = "r_summary"
    /\ IF SummaryFaults(data)
       THEN Exit(2, "")
       ELSE Exit(IF is_valid.v THEN 0 ELSE 1, "")
    /\ UNCHANGED <<loaded_schema, tool, argv, yaml_file, schema_file, HAS_JSONSCHEMA, data,
                   errors, warnings, sem_errors, sem_warnings, ran, validated,
                   found, reported, is_valid>>

Next ==
    \/ V_Main
    \/ V_SchemaMode
    \/ LintLoadYaml
    \/ LintSchema
    \/ \E k \in 1..NumChecks : SemCheck(k)
    \/ LintReturn
    \/ V_Report
    \/ R_Main
    \/ R_Load
    \/ R_Validate
    \/ R_Summary

Spec == Init /\ [][Next]_vars

(***************************************************************************)
(* The rule engine with its checks evaluated in any order: a document is   *)
(* loaded, the checks not yet evaluated run one at a time in an order the  *)
(* scheduler picks, and the verdict is returned when all have run.         *)
(***************************************************************************)
InitAnyOrder ==
    /\ tool = "validate"
    /\ argv = "path"
    /\ yaml_file = "ok"
    /\ schema_file = "missing"
    /\ HAS_JSONSCHEMA \in BOOLEAN
    /\ pc = "semantics"
    /\ data \in Docs
    /\ loaded_schema = Unbound
    /\ errors = <<>>
    /\ warnings = <<>>
    /\ sem_errors = <<>>
    /\ sem_warnings = <<>>
    /\ ran = {}
    /\ validated = FALSE
    /\ found = {}
    /\ reported = <<>>
    /\ is_valid = Unbound
    /\ raised = ""
    /\ exit_code = -1

SemCheckAny(k) ==
    /\ pc = "semantics"
    /\ k \notin ran
    /\ RunCheck(k)
    /\ UNCHANGED <<loaded_schema, tool, argv, yaml_file, schema_file, HAS_JSONSCHEMA, data,
                   errors, warnings, validated, found, reported, is_valid>>

NextAnyOrder ==
    \/ \E k \in 1..NumChecks : SemCheckAny(k)
    \/ LintReturn

SpecAnyOrder == InitAnyOrder /\ [][NextAnyOrder]_vars

TypeOK ==
    /\ pc \in {"main", "load_yaml", "schema", "semantics", "report",
               "r_load", "r_validate", "r_summary", "exit"}
    /\ exit_code \in {-1, 0, 1, 2}
    /\ ran \subseteq 1..NumChecks


(***************************************************************************)
(* Vocabulary of the properties: a document read the tolerant way, where   *)
(* a node that is not there counts as empty.                               *)
(***************************************************************************)
Lookup(x, key) ==
    IF x.t = "map" /\ key \in DOMAIN x.v THEN x.v[key] ELSE Absent
KeysOf(x) == IF x.t = "map" THEN DOMAIN x.v ELSE {}
ItemsOf(x) == IF x.t = "seq" THEN x.v ELSE <<>>
NumberOr(x, default) == IF x.t = "int" THEN x.v ELSE default
Appended(old, new) == SubSeq(new, Len(old) + 1, Len(new))
MissingFrom(required, keys, msg) ==
    LET missing == SelectSeq(required, LAMBDA n : n \notin keys)
    IN [i \in 1..Len(missing) |-> msg \o missing[i]]
LintReturned == tool = "validate" /\ pc \in {"report", "exit"} /\ ran = 1..NumChecks
AtCheck(k) == pc = "semantics" /\ ran = 1..(k - 1)

\* C1: whenever lint_yaml_file returns after parsing the document, is_valid
\* is true exactly when the schema validator reported no structural
\* violation and the semantic rule engine returned no error, whether or not
\* the schema-validation library is available.
C1_IsValidIffNoViolationNoSemanticError ==
    LintReturned =>
        is_valid = PyBool(reported = <<>> /\ sem_errors = <<>>)

\* C2: validate_yaml_semantics never fails, whatever the Document Tree: no
\* run ends with an exception raised by a semantic check.
C2_SemanticsNeverFails == raised # "SemanticsFault"

\* C3: on a constraints sequence of mappings, check 3 appends exactly one
\* error for each 1-based position i whose id is not "C" followed by i,
\* naming the expected id and the actual one, in position order, and
\* nothing else.
ConstraintIdAt(items, i) ==
    IF "id" \in DOMAIN items[i].v THEN items[i].v["id"] ELSE Str("")
ConstraintErrorsExpected(items) ==
    LET wrong == SelectSeq([i \in 1..Len(items) |-> i],
                           LAMBDA i : ConstraintIdAt(items, i) # Str("C" \o ToString(i)))
    IN [j \in 1..Len(wrong) |->
          "Constraint ID out of order: expected C" \o ToString(wrong[j])
          \o ", got " \o Fmt(ConstraintIdAt(items, wrong[j]))]
SequenceOfMappings(x) ==
    x.t = "seq" /\ \A i \in 1..Len(x.v) : x.v[i].t = "map"
ConstraintsOf(d) ==
    IF Lookup(d, "constraints") = Absent THEN EmptyList ELSE Lookup(d, "constraints")
C3_ConstraintOrderingDoesNotCascade ==
    [][(AtCheck(3) /\ SequenceOfMappings(ConstraintsOf(data)))
        => /\ ran' = 1..3
           /\ sem_warnings' = sem_warnings
           /\ Len(sem_errors') >= Len(sem_errors)
           /\ SubSeq(sem_errors', 1, Len(sem_errors)) = sem_errors
           /\ Appended(sem_errors, sem_errors')
                = ConstraintErrorsExpected(ConstraintsOf(data).v)]_vars
C3_Witness ==
    /\ pc = "semantics" /\ ran = 1..3
    /\ ConstraintsOf(data)
         = List(<<Constraint("C1"), Constraint("X"), Constraint("C3")>>)
    /\ sem_errors = <<"Constraint ID out of order: expected C2, got X">>

\* C4: for every document, check 2 appends exactly one error per name of
\* BOOT, SEC, BUG, PERF, DOC that is not a key of definitions.id_prefixes
\* (five when definitions or id_prefixes is absent) and check 4 exactly one
\* error per name of phase_zero .. phase_three that is not a key of phases;
\* extra keys produce nothing.
C4_OneErrorPerMissingName ==
    [][/\ AtCheck(2) =>
            /\ ran' = 1..2
            /\ sem_warnings' = sem_warnings
            /\ sem_errors' = sem_errors \o MissingFrom(
                   <<"BOOT", "SEC", "BUG", "PERF", "DOC">>,
                   KeysOf(Lookup(Lookup(data, "definitions"), "id_prefixes")),
                   "Missing required ID prefix: ")
       /\ AtCheck(4) =>
            /\ ran' = 1..4
            /\ sem_warnings' = sem_warnings
            /\ sem_errors' = sem_errors \o MissingFrom(
                   <<"phase_zero", "phase_one", "phase_two", "phase_three">>,
                   KeysOf(Lookup(data, "phases")),
                   "Missing required phase: ")]_vars


\* C5 as stated: whenever the document or the schema cannot be located or
\* parsed, lint_yaml_file neither evaluates the schema validator nor any
\* check of the semantic rule engine.
FileFault(f) == f # "ok"
C6_NoShortCircuitWithinTier ==
    /\ validated => found \subseteq Range(reported)
    /\ LintReturned =>
         /\ sem_errors = validate_yaml_semantics(data).errors
         /\ sem_warnings = validate_yaml_semantics(data).warnings

\* C7: for both entry points run on a document path, the exit status is 0
\* exactly when is_valid is true, a failed validation exits with 1, and a
\* document or schema that is missing or malformed exits with 2.
C7_ExitStatus ==
    (pc = "exit" /\ argv = "path") =>
        /\ exit_code = 0 <=> is_valid = PyBool(TRUE)
        /\ is_valid = PyBool(FALSE) => exit_code = 1
        /\ (FileFault(yaml_file) \/ FileFault(schema_file)) => exit_code = 2

\* C8: with the seven checks evaluated in any order, a returned verdict has
\* the same errors, the same warnings and the same is_valid as
\* validate_yaml_semantics evaluating them in source order, and a run fails
\* exactly when the source order fails.
C8_AnyOrderSameVerdict ==
    LET inOrder == validate_yaml_semantics(data)
    IN /\ pc = "report" =>
            /\ ~inOrder.fault
            /\ Range(errors) = Range(inOrder.errors)
            /\ Range(warnings) = Range(inOrder.warnings)
            /\ Len(errors) = Len(inOrder.errors)
            /\ Len(warnings) = Len(inOrder.warnings)
            /\ is_valid = PyBool(inOrder.errors = <<>>)
       /\ raised = "SemanticsFault" => inOrder.fault
       /\ inOrder.fault => pc # "report"
C8_Witness ==
    /\ pc = "report"
    /\ Len(errors) >= 2 /\ Len(warnings) >= 2
    /\ errors # validate_yaml_semantics(data).errors
    /\ warnings # validate_yaml_semantics(data).warnings

\* C9: check 5 appends exactly one warning when
\* output_controls.size_limits.critical_and_high_max_total, 0 when absent,
\* is outside [20, 50], no warning when it is inside, and never an error.
CriticalOf(d) ==
    NumberOr(Lookup(Lookup(Lookup(d, "output_controls"), "size_limits"),
                    "critical_and_high_max_total"), 0)
C9_SizeLimitWarningOutsideRange ==
    [][AtCheck(5) =>
         /\ ran' = 1..5
         /\ sem_errors' = sem_errors
         /\ Len(sem_warnings') = Len(sem_warnings)
              + (IF CriticalOf(data) < 20 \/ CriticalOf(data) > 50 THEN 1 ELSE 0)
         /\ SubSeq(sem_warnings', 1, Len(sem_warnings)) = sem_warnings]_vars

\* C10: check 6 appends one warning exactly when anti_patterns.prohibited,
\* empty when absent, has fewer than 5 entries, check 7 one warning exactly
\* when pre_delivery_checklist.mandatory_checks has fewer than 5 entries,
\* and neither ever appends an error.
EntriesOf(d, section, key) == Len(ItemsOf(Lookup(Lookup(d, section), key)))
C10_CoverageFloorIsFive ==
    [][/\ AtCheck(6) =>
            /\ ran' = 1..6
            /\ sem_errors' = sem_errors
            /\ Len(sem_warnings') = Len(sem_warnings)
                 + (IF EntriesOf(data, "anti_patterns", "prohibited") < 5
                    THEN 1 ELSE 0)
       /\ AtCheck(7) =>
            /\ ran' = 1..7
            /\ sem_errors' = sem_errors
            /\ Len(sem_warnings') = Len(sem_warnings)
                 + (IF EntriesOf(data, "pre_delivery_checklist", "mandatory_checks") < 5
                    THEN 1 ELSE 0)]_vars


\* C11: for every Schema Tree, validate_schema_structure returns, in order,
\* exactly one diagnostic per key of $schema, type, properties that is
\* missing, plus exactly one diagnostic when the first pattern key under
\* properties -> definitions -> properties -> id_prefixes ->
\* patternProperties is missing or is not ^[A-Z]{3,6}$; a missing key on
\* that path gives no diagnostic, and the call never fails.
PatternNode(s) ==
    Lookup(Lookup(Lookup(Lookup(Lookup(s, "properties"), "definitions"),
                         "properties"), "id_prefixes"), "patternProperties")
PatternDiagnostics(s) ==
    LET pp == PatternNode(s)
    IN IF pp = Absent THEN 0
       ELSE IF pp.t = "map" /\ Len(pp.o) > 0 /\ pp.o[1] = "^[A-Z]{3,6}$" THEN 0
       ELSE 1
SchemaChecked == pc = "exit" /\ argv = "--schema" /\ loaded_schema # Unbound
C11_OneDiagnosticPerSchemaDefect ==
    SchemaChecked =>
        LET missing == MissingFrom(<<"$schema", "type", "properties">>,
                                   KeysOf(loaded_schema),
                                   "Schema missing required field: ")
        IN /\ Len(errors) = Len(missing) + PatternDiagnostics(loaded_schema)
           /\ SubSeq(errors, 1, Len(missing)) = missing
           /\ exit_code = IF errors = <<>> THEN 0 ELSE 1

=============================================================================
